---- MODULE Spec2Model ----
(***************************************************************************)
(* The credential lifecycle of twitchWrapper: the device-flow login of     *)
(* routes/twitch.js (manageTwitchLogin, getUserCode, pollForAccessToken,   *)
(* manageKeepAlive, refreshAccessToken), the encrypted token file and the  *)
(* TokenManager of utils/tokenStorage.js, and the start and shutdown of    *)
(* utils/serverUtils.js.                                                   *)
(*                                                                         *)
(* Time is counted in whole seconds: Date.now(), expires_at and saved_at   *)
(* are seconds here and milliseconds in the code, so the code's            *)
(* expires_in * 1000 is expires_in, its 5 * 60 * 1000 is 300, its 5000 is  *)
(* 5 and its pollInterval 2000 is 2.  Only differences of times decide     *)
(* anything in the code (expires_at against Date.now(), a timer's delay),  *)
(* so times are kept relative to the present: when the clock moves by d,   *)
(* every time held in the state is rebased by d and Date.now() reads 0.    *)
(***************************************************************************)
EXTENDS Integers, Sequences, FiniteSets, TLC

VARIABLES
    proc,         \* "running" | "exited": the Node process
    exitCode,     \* the code given to process.exit, -1 while running
    file,         \* the content of TOKEN_FILE on disk
    io,           \* the fs operations in flight (writeFile, unlink)
    tokens,       \* tokenManager.tokens
    isLoaded,     \* tokenManager.isLoaded
    globalToken,  \* global.twitchAccessToken
    pc,           \* where the running manageTwitchLogin call stands
    attempts,     \* pollForAccessToken's attempts
    tasks,        \* pending timers and in-flight refresh requests
    shutdownInProgress, \* serverUtils.js shutdownInProgress
    issued,       \* number of credentials the authorization server has issued
    hist,         \* observations of the run, read by the properties only
    startPort,    \* preferredPort of startServerWithPortFinding
    port,         \* findAvailablePort's port
    ports,        \* the ports of the host that nothing is bound to
    server,       \* the port app.listen has bound, NotListening before
    chatters,     \* how many chatters the broadcaster's channel has
    call,         \* the arguments of the getRandomChatter call that awaits
                  \* its answer from the chatters endpoint, Null if none
    res           \* what GET /random-chatter answered last, Null before

srvVars == <<startPort, port, ports, server, chatters, call, res>>

vars == <<proc, exitCode, file, io, tokens, isLoaded, globalToken,
          pc, attempts, tasks, shutdownInProgress, issued, hist,
          startPort, port, ports, server, chatters, call, res>>

----------------------------------------------------------------------------
(* Program constants *)

maxAttempts == 100
pollInterval == 2
refreshLeadSeconds == 10
retryDelay == 5
fiveMinutes == 300

(* Bounds of the model *)

MaxIssued == 1
\* calls of tokenManager.initialize() in the specification of its callers
MaxCalls == 3

\* expires_in values the token endpoint answers with (seconds)
ExpiresIns == {5, 20, 320}
\* process.env.ENCRYPTION_KEY
\* process.env.PORT || 3000, and the ports the host has: findAvailablePort's
\* maxPort is the last of them (65535 on a real host)
MinPort == 3000
MaxPort == 3003
Ports == MinPort..MaxPort
NotListening == -1

\* first=1000 of the chatters request, and how many chatters a channel may
\* have
PageSize == 1000
Totals == {0, 1, 1000, 1001, 2500}

\* the interval member of the device-code grant, in seconds (5 at Twitch)
Intervals == {2, 5}
ENCRYPTION_KEY == "key"
\* the initialization vectors crypto.randomBytes may draw
IVs == {0, 1}

----------------------------------------------------------------------------
(* Values *)

\* Date.now(), the origin of the relative times
now == 0

Null == [kind |-> "null"]
Undefined == [kind |-> "undefined"]
NoFile == [kind |-> "ENOENT"]
Truncated == [kind |-> "truncated"]
DecryptError == [kind |-> "decrypt-error"]
EnvScopes == "env-scopes"

\* JavaScript truthiness of a token value
Truthy(v) == v # Null /\ v # Undefined

\* The success body of the token endpoint for the n-th issuance.
TokenResponse(n, e) ==
    [access_token |-> n, refresh_token |-> n, expires_in |-> e,
     scope |-> "granted-scopes", token_type |-> "bearer"]

----------------------------------------------------------------------------
(* utils/tokenStorage.js: JSON, encrypt, decrypt *)

\* JSON.stringify of an object given as its properties in order, name/value
\* pairs; a property whose value is undefined is not among them.
JSONstringify(pairs) == [json |-> pairs]

\* JSON.parse: the object with the properties of the text.
JSONparse(text) ==
    LET s == text.json
        names == {s[i][1] : i \in DOMAIN s}
    IN [n \in names |-> s[CHOOSE i \in DOMAIN s : s[i][1] = n][2]]

\* crypto.createCipher(algorithm, password) derives key and IV from the
\* password alone: the random iv is only prefixed to the output.
encrypt(text, iv, k) == [iv |-> iv, cipher |-> [key |-> k, text |-> text]]

\* decrypt splits the iv off and never gives it to createDecipher; a
\* ciphertext made with another password, or a file that is no ivHex:cipherHex
\* text, makes decipher.final or JSON.parse throw.
decrypt(blob, k) ==
    IF "cipher" \in DOMAIN blob /\ blob.cipher.key = k
    THEN blob.cipher.text
    ELSE DecryptError

Has(r, f) == f \in DOMAIN r

Prop(r, f) == IF Has(r, f) THEN << <<f, r[f]>> >> ELSE <<>>

\* a dataToSave whose expires_at is the time of the save
DataToSaveNoLifetime(tokenData, t) ==
    Prop(tokenData, "access_token") \o Prop(tokenData, "refresh_token")
    \o Prop(tokenData, "expires_in")
    \o << <<"expires_at", t>> >>
    \o << <<"scopes", IF Has(tokenData, "scope")
                      THEN tokenData.scope ELSE EnvScopes>> >>
    \o << <<"saved_at", t>> >>

\* dataToSave of saveTokens at time t, as the properties JSON.stringify keeps
DataToSave(tokenData, t) ==
    Prop(tokenData, "access_token") \o Prop(tokenData, "refresh_token")
    \o Prop(tokenData, "expires_in")
    \o << <<"expires_at", t + tokenData.expires_in>> >>
    \o << <<"scopes", IF Has(tokenData, "scope")
                      THEN tokenData.scope ELSE EnvScopes>> >>
    \o << <<"saved_at", t>> >>

\* a saveTokens that writes the JSON text itself
SavedBlobPlain(tokenData, t, iv) == JSONstringify(DataToSave(tokenData, t))

\* the text saveTokens hands to fs.writeFile
SavedBlob(tokenData, t, iv) ==
    encrypt(JSONstringify(DataToSave(tokenData, t)), iv, ENCRYPTION_KEY)

\* a loadTokens that returns null for an expired record and leaves the file
loadTokensKeepsExpired(content, t) ==
    IF content = NoFile
    THEN [result |-> Null, reap |-> FALSE, threw |-> TRUE, enoent |-> TRUE]
    ELSE IF decrypt(content, ENCRYPTION_KEY) = DecryptError
    THEN [result |-> Null, reap |-> FALSE, threw |-> TRUE, enoent |-> FALSE]
    ELSE LET tokenData == JSONparse(decrypt(content, ENCRYPTION_KEY))
         IN IF Has(tokenData, "expires_at") /\ tokenData.expires_at # 0
               /\ t < tokenData.expires_at
            THEN [result |-> tokenData, reap |-> FALSE, threw |-> FALSE,
                  enoent |-> FALSE]
            ELSE [result |-> Null, reap |-> FALSE, threw |-> FALSE,
                  enoent |-> FALSE]

\* What loadTokens makes of the file content read at time t:
\*   [result |-> the value returned, reap |-> whether deleteTokens is awaited
\*    first, threw |-> whether the catch block ran, enoent |-> error.code]
loadTokens(content, t) ==
    IF content = NoFile
    THEN [result |-> Null, reap |-> FALSE, threw |-> TRUE, enoent |-> TRUE]
    ELSE IF decrypt(content, ENCRYPTION_KEY) = DecryptError
    THEN [result |-> Null, reap |-> FALSE, threw |-> TRUE, enoent |-> FALSE]
    ELSE LET tokenData == JSONparse(decrypt(content, ENCRYPTION_KEY))
         IN IF Has(tokenData, "expires_at") /\ tokenData.expires_at # 0
               /\ t < tokenData.expires_at
            THEN [result |-> tokenData, reap |-> FALSE, threw |-> FALSE,
                  enoent |-> FALSE]
            ELSE [result |-> Null, reap |-> TRUE, threw |-> FALSE,
                  enoent |-> FALSE]

\* a needsRefresh without the five-minute margin
needsRefreshNoMargin(tokenData, t) ==
    IF ~Has(tokenData, "expires_at") \/ tokenData.expires_at = 0
    THEN TRUE
    ELSE t > tokenData.expires_at

\* needsRefresh(tokenData) at time t
needsRefresh(tokenData, t) ==
    IF ~Has(tokenData, "expires_at") \/ tokenData.expires_at = 0
    THEN TRUE
    ELSE t > tokenData.expires_at - fiveMinutes

\* TokenManager.needsRefresh() for this.tokens = held, at time t
TokenManagerNeedsRefresh(held, t) ==
    IF Truthy(held) THEN needsRefresh(held, t) ELSE TRUE

\* TokenManager.getTokens()
getTokens == tokens

----------------------------------------------------------------------------
(* The fs operations in flight *)

\* saveTokens(tokenData) up to its await: the writeFile it starts
\* arg is the object saveTokens was called with, over the content the open
\* replaced (both for the properties only)
WriteOp(tokenData, iv) ==
    [op |-> "write", data |-> SavedBlob(tokenData, now, iv),
     stage |-> "queued", orphan |-> FALSE, arg |-> tokenData, over |-> Null]

\* deleteTokens() up to its await: the unlink it starts; by is "clear" for
\* clearTokens (not awaited) and "load" for loadTokens (awaited)
UnlinkOp(by) == [op |-> "unlink", by |-> by]

Writes == {o \in io : o.op = "write"}
Unlinks == {o \in io : o.op = "unlink"}

----------------------------------------------------------------------------
(* Timers and requests of the keep-alive chain *)

Max(a, b) == IF a >= b THEN a ELSE b

\* a delay that is the whole lifetime
refreshDelayNoLead(accessToken) == accessToken.expires_in

\* the delay manageKeepAlive hands to setTimeout, in seconds
refreshDelay(accessToken) == accessToken.expires_in - refreshLeadSeconds

\* setTimeout(f, d) at time t fires at t + d, and at once when d is not
\* positive
DueAt(t, d) == t + Max(0, d)

RefreshTimer(accessToken) ==
    [kind |-> "refreshTimer", due |-> DueAt(now, refreshDelay(accessToken)),
     rec |-> accessToken, armed |-> now]

\* a request that carries the refresh_token of the issuance before
RefreshReqOfOlderRecord(timer) ==
    [timer EXCEPT !.kind = "refreshReq", !.rec.refresh_token = @ - 1]

\* the request the timer's callback sends: refreshAccessToken is given the
\* refresh_token of the accessToken manageKeepAlive was called with
RefreshReq(timer) == [timer EXCEPT !.kind = "refreshReq"]

BackoffTimer == [kind |-> "backoff", due |-> DueAt(now, retryDelay)]
PollTimer == [kind |-> "pollTimer", due |-> DueAt(now, pollInterval * 2)]
ExitTimer == [kind |-> "exitTimer", due |-> now]

Timers == {t \in tasks : t.kind # "refreshReq"}
ClockTimers == {t \in Timers : t.kind # "pollTimer"}

----------------------------------------------------------------------------
(* Observations *)

HistInit ==
    [last |-> "start",      \* the step taken last
     pollCalls |-> 0,       \* requests pollForAccessToken has sent in this run
     allPending |-> TRUE,   \* every answer of this run was authorization_pending
     lastErr |-> "none",    \* the error of the poll whose wait is running
     devReqs |-> 0,         \* device-code requests since the process started
                            \* or a scheduled refresh last failed
     refreshReqs |-> 0,     \* refresh requests since then
     recovering |-> FALSE,  \* a scheduled refresh failed and no credential
                            \* has been adopted since
     loads |-> 0,           \* loadTokens calls since the process started
     renewals |-> 0,        \* scheduled refreshes that succeeded since the
                            \* process started
     refreshWith |-> -1,    \* the refresh_token of the startup refresh request
     interval |-> 0,        \* userCodeData.interval of the run's grant
     wait |-> 0,            \* the delay of the wait armed last in this run
     overlap |-> FALSE]     \* manageTwitchLogin was called while a call ran

\* the observations after the step called name: the counts of a
\* pollForAccessToken run are kept while it runs and in the state it ends in
Obs(h, name) ==
    [h EXCEPT !.last = name,
              !.pollCalls = IF pc \in {"deviceCode", "polling", "pollWait"}
                            THEN @ ELSE 0,
              !.allPending = IF pc \in {"deviceCode", "polling", "pollWait"}
                             THEN @ ELSE TRUE,
              !.lastErr = IF pc = "pollWait" THEN @ ELSE "none",
              !.interval = IF pc \in {"deviceCode", "polling", "pollWait"}
                           THEN @ ELSE 0,
              !.wait = IF pc \in {"polling", "pollWait"} THEN @ ELSE 0,
              !.refreshWith = IF pc = "startupRefresh" THEN @ ELSE -1]

\* the token files an earlier run of the server may have left: its
\* saveTokens of a credential issued to it
StoredByEarlierRun ==
    {SavedBlob(TokenResponse(0, e), now, iv) : e \in ExpiresIns, iv \in IVs}

Init ==
    /\ proc = "running"
    /\ exitCode = -1
    /\ file \in {NoFile} \cup StoredByEarlierRun
    /\ io = {}
    /\ tokens = Null
    /\ isLoaded = FALSE
    /\ globalToken = Undefined
    /\ pc = "boot"
    /\ attempts = 0
    /\ tasks = {}
    /\ shutdownInProgress = FALSE
    /\ issued = 0
    /\ hist = HistInit
    /\ startPort = MinPort
    /\ port = MinPort
    /\ ports = Ports \ {MinPort}
    /\ server = MinPort
    /\ chatters = 0
    /\ call = Null
    /\ res = Null

----------------------------------------------------------------------------
(* routes/twitch.js *)

\* a loop that runs once more: while (attempts <= maxAttempts)
loopContinuesInclusive(a) == a <= maxAttempts

\* pollForAccessToken's loop condition
loopContinues(a) == a < maxAttempts

\* a setTokens that assigns into the held object and keeps its refresh_token
setTokensFieldwise(tokenData, io0, iv) ==
    /\ tokens' = IF Truthy(tokens)
                 THEN [tokenData EXCEPT !.refresh_token = tokens.refresh_token]
                 ELSE tokenData
    /\ io' = io0 \cup {WriteOp(tokenData, iv)}

\* a setTokens that assigns this.tokens only once saveTokens has resolved
setTokensAfterSave(tokenData, io0, iv) ==
    /\ tokens' = tokens
    /\ io' = io0 \cup {WriteOp(tokenData, iv)}

\* TokenManager.setTokens(tokenData): the record is replaced, saveTokens is
\* started and not awaited
setTokens(tokenData, io0, iv) ==
    /\ tokens' = tokenData
    /\ io' = io0 \cup {WriteOp(tokenData, iv)}

\* manageKeepAlive(accessToken): setTokens, the global, and the timer; io0,
\* tasks0 and h0 are the values the caller's earlier statements left
manageKeepAlive(accessToken, io0, tasks0, h0, lastName) ==
    \E iv \in IVs :
        /\ setTokens(accessToken, io0, iv)
        /\ globalToken' = accessToken
        /\ tasks' = tasks0 \cup {RefreshTimer(accessToken)}
        /\ hist' = [Obs(h0, lastName) EXCEPT !.recovering = FALSE]

\* manageTwitchLogin lines 41-43 and 58-61: setTokens, then the global, then
\* manageKeepAlive
AdoptIssued(accessToken, tasks0, h0, lastName) ==
    \E iv \in IVs :
        /\ manageKeepAlive(accessToken, io \cup {WriteOp(accessToken, iv)},
                           tasks0, h0, lastName)
        /\ pc' = "done"

\* a manageTwitchLogin without the branch of lines 25-32: a stored record is
\* always refreshed first
DecideAlwaysRefreshes(existingTokens, tasks0, h0) ==
    IF Truthy(existingTokens)
    THEN /\ tokens' = existingTokens
         /\ pc' = "startupRefresh"
         /\ tasks' = tasks0
         /\ hist' = [Obs(h0, "startupRefreshSent") EXCEPT
                               !.refreshReqs = @ + 1,
                               !.refreshWith = existingTokens.refresh_token]
         /\ UNCHANGED <<io, globalToken>>
    ELSE /\ tokens' = existingTokens
         /\ pc' = "deviceCode"
         /\ tasks' = tasks0
         /\ hist' = [Obs(h0, "deviceCodeSent") EXCEPT !.devReqs = @ + 1]
         /\ UNCHANGED <<io, globalToken>>

\* a manageTwitchLogin without the branch of lines 35-52: a stored record
\* that needs refresh is dropped for the device flow
DecideSkipsRefresh(existingTokens, tasks0, h0) ==
    IF Truthy(existingTokens) /\ ~TokenManagerNeedsRefresh(existingTokens, now)
    THEN /\ manageKeepAlive(existingTokens, io, tasks0, h0, "adoptStored")
         /\ pc' = "done"
    ELSE /\ tokens' = existingTokens
         /\ pc' = "deviceCode"
         /\ tasks' = tasks0
         /\ hist' = [Obs(h0, "deviceCodeSent") EXCEPT !.devReqs = @ + 1]
         /\ UNCHANGED <<io, globalToken>>

\* manageTwitchLogin after initialize() has answered existingTokens
Decide(existingTokens, tasks0, h0) ==
    IF Truthy(existingTokens) /\ ~TokenManagerNeedsRefresh(existingTokens, now)
    THEN /\ manageKeepAlive(existingTokens, io, tasks0, h0, "adoptStored")
         /\ pc' = "done"
    ELSE IF Truthy(existingTokens)
    THEN /\ tokens' = existingTokens
         /\ pc' = "startupRefresh"
         /\ tasks' = tasks0
         /\ hist' = [Obs(h0, "startupRefreshSent") EXCEPT
                               !.refreshReqs = @ + 1,
                               !.refreshWith = existingTokens.refresh_token]
         /\ UNCHANGED <<io, globalToken>>
    ELSE /\ tokens' = existingTokens
         /\ pc' = "deviceCode"
         /\ tasks' = tasks0
         /\ hist' = [Obs(h0, "deviceCodeSent") EXCEPT !.devReqs = @ + 1]
         /\ UNCHANGED <<io, globalToken>>

\* manageTwitchLogin up to the answer of tokenManager.initialize()
manageTwitchLogin(tasks0, h0) ==
    IF ~isLoaded
    THEN /\ pc' = "loading"
         /\ tasks' = tasks0
         /\ hist' = [Obs(h0, "loadSent") EXCEPT !.loads = @ + 1]
         /\ UNCHANGED <<tokens, io, globalToken, isLoaded>>
    ELSE /\ Decide(tokens, tasks0, h0)
         /\ UNCHANGED isLoaded

\* a catch block that logs the error and does not exit
CatchLogsOnly(code, lastName) ==
    /\ pc' = "done"
    /\ attempts' = 0
    /\ hist' = Obs(hist, lastName)
    /\ UNCHANGED <<proc, exitCode, io, tasks, tokens, isLoaded, globalToken,
                   shutdownInProgress, file, issued>>

\* process.exit(code)
ProcessExit(code, lastName) ==
    /\ proc' = "exited"
    /\ exitCode' = code
    /\ io' = {}
    /\ tasks' = {}
    /\ tokens' = Null
    /\ isLoaded' = FALSE
    /\ globalToken' = Undefined
    /\ pc' = "boot"
    /\ attempts' = 0
    /\ shutdownInProgress' = FALSE
    /\ hist' = [Obs(hist, lastName) EXCEPT !.recovering = FALSE]
    /\ UNCHANGED <<file, issued>>

Running == proc = "running"

\* app.listen's callback: onServerStart calls manageTwitchLogin
ServerStart ==
    /\ UNCHANGED srvVars
    /\ Running /\ pc = "boot"
    /\ manageTwitchLogin(tasks, hist)
    /\ UNCHANGED <<proc, exitCode, file, attempts, shutdownInProgress,
                   issued>>

\* fs.readFile answers loadTokens; a record that is not expired, or an error,
\* lets initialize() and manageTwitchLogin go on at once
LoadAnswered ==
    /\ UNCHANGED srvVars
    /\ Running /\ pc = "loading"
    /\ LET l == loadTokens(file, now)
       IN IF l.reap
          THEN /\ pc' = "reaping"
               /\ io' = io \cup {UnlinkOp("load")}
               /\ hist' = Obs(hist, "loadExpired")
               /\ UNCHANGED <<tokens, isLoaded, globalToken, tasks>>
          ELSE /\ isLoaded' = TRUE
               /\ Decide(l.result, tasks, hist)
    /\ UNCHANGED <<proc, exitCode, file, attempts, shutdownInProgress,
                   issued>>

\* getUserCode: the device-authorization endpoint answers a grant, and
\* pollForAccessToken sends its first request
DeviceCodeGranted ==
    /\ UNCHANGED srvVars
    /\ Running /\ pc = "deviceCode"
    /\ attempts' = 0
    /\ IF loopContinues(0)
       THEN /\ pc' = "polling"
            /\ \E i \in Intervals :
                  hist' = [Obs(hist, "pollSent") EXCEPT !.pollCalls = 1,
                                          !.allPending = TRUE,
                                          !.interval = i]
            /\ UNCHANGED <<proc, exitCode, io, tasks, tokens, isLoaded,
                           globalToken, shutdownInProgress>>
       ELSE ProcessExit(1, "authTimeout")
    /\ UNCHANGED <<file, issued>>

\* getUserCode throws (a non-success answer or a transport failure)
DeviceCodeFailed ==
    /\ UNCHANGED srvVars
    /\ Running /\ pc = "deviceCode"
    /\ ProcessExit(1, "deviceCodeFailed")

PollErrors ==
    {"authorization_pending", "slow_down", "expired_token", "access_denied",
     "network"}

\* a loop that does not return on success: the wait of the catch block is
\* armed all the same
PollSucceededStillWaits ==
    /\ UNCHANGED srvVars
    /\ Running /\ pc = "polling"
    /\ issued < MaxIssued
    /\ \E e \in ExpiresIns :
        AdoptIssued(TokenResponse(issued + 1, e), tasks \cup {PollTimer},
                    [hist EXCEPT !.allPending = FALSE], "pollSucceeded")
    /\ issued' = issued + 1
    /\ attempts' = 0
    /\ UNCHANGED <<proc, exitCode, file, isLoaded, shutdownInProgress>>

\* the token endpoint answers the poll with a credential
PollSucceeded ==
    /\ UNCHANGED srvVars
    /\ Running /\ pc = "polling"
    /\ issued < MaxIssued
    /\ \E e \in ExpiresIns :
        AdoptIssued(TokenResponse(issued + 1, e), tasks,
                    [hist EXCEPT !.allPending = FALSE, !.interval = 0,
                                 !.wait = 0], "pollSucceeded")
    /\ issued' = issued + 1
    /\ attempts' = 0
    /\ UNCHANGED <<proc, exitCode, file, isLoaded, shutdownInProgress>>

\* a catch block that rethrows what is not an answer of the token endpoint
PollFailedThrowsOnNetwork ==
    /\ UNCHANGED srvVars
    /\ Running /\ pc = "polling"
    /\ \E err \in PollErrors :
        IF err = "network"
        THEN ProcessExit(1, "pollAborted")
        ELSE /\ hist' = [Obs(hist, "pollFailed") EXCEPT
                            !.allPending = @ /\ err = "authorization_pending",
                            !.lastErr = err,
                            !.wait = pollInterval * 2]
             /\ attempts' = attempts + 1
             /\ pc' = "pollWait"
             /\ tasks' = tasks \cup {PollTimer}
             /\ UNCHANGED <<proc, exitCode, file, io, tokens, isLoaded,
                            globalToken, shutdownInProgress, issued>>

\* a catch block that arms the wait without awaiting it: the loop sends the
\* next request at once and the timer is still to fire
PollFailedResends ==
    /\ UNCHANGED srvVars
    /\ Running /\ pc = "polling"
    /\ \E err \in PollErrors :
        hist' = [Obs(hist, "pollFailed") EXCEPT
                    !.allPending = @ /\ err = "authorization_pending",
                    !.lastErr = err,
                    !.wait = pollInterval * 2]
    /\ attempts' = attempts + 1
    /\ pc' = "polling"
    /\ tasks' = tasks \cup {PollTimer}
    /\ UNCHANGED <<proc, exitCode, file, io, tokens, isLoaded,
                   globalToken, shutdownInProgress, issued>>

\* axios.post throws: the catch block counts the attempt and waits
PollFailed ==
    /\ UNCHANGED srvVars
    /\ Running /\ pc = "polling"
    /\ \E err \in PollErrors :
        hist' = [Obs(hist, "pollFailed") EXCEPT
                    !.allPending = @ /\ err = "authorization_pending",
                    !.lastErr = err,
                    !.wait = pollInterval * 2]
    /\ attempts' = attempts + 1
    /\ pc' = "pollWait"
    /\ tasks' = tasks \cup {PollTimer}
    /\ UNCHANGED <<proc, exitCode, file, io, tokens, isLoaded,
                   globalToken, shutdownInProgress, issued>>

\* the wait is over: the loop sends the next request, or ends and throws
PollTimerFired ==
    /\ UNCHANGED srvVars
    /\ Running /\ pc = "pollWait"
    /\ \E t \in tasks :
        /\ t.kind = "pollTimer" /\ t.due <= now
        /\ IF loopContinues(attempts)
           THEN /\ pc' = "polling"
                /\ tasks' = tasks \ {t}
                /\ hist' = [Obs(hist, "pollSent") EXCEPT
                                        !.pollCalls = @ + 1,
                                        !.lastErr = "none"]
                /\ UNCHANGED <<proc, exitCode, io, tokens, isLoaded,
                               globalToken, attempts, shutdownInProgress>>
           ELSE ProcessExit(1, "authTimeout")
    /\ UNCHANGED <<file, issued>>

\* the refresh that manageTwitchLogin awaits at startup succeeds
StartupRefreshSucceeded ==
    /\ UNCHANGED srvVars
    /\ Running /\ pc = "startupRefresh"
    /\ issued < MaxIssued
    /\ \E e \in ExpiresIns :
        AdoptIssued(TokenResponse(issued + 1, e), tasks, hist,
                    "startupRefreshSucceeded")
    /\ issued' = issued + 1
    /\ UNCHANGED <<proc, exitCode, file, isLoaded, attempts,
                   shutdownInProgress>>

\* it fails: the inner catch logs and the device flow starts
StartupRefreshFailed ==
    /\ UNCHANGED srvVars
    /\ Running /\ pc = "startupRefresh"
    /\ pc' = "deviceCode"
    /\ hist' = [Obs(hist, "deviceCodeSent") EXCEPT !.devReqs = @ + 1]
    /\ UNCHANGED <<proc, exitCode, file, io, tokens, isLoaded,
                   globalToken, attempts, tasks, shutdownInProgress, issued>>

\* a timer armed with setInterval: it sends the refresh request and stays
\* armed
RefreshTimerRepeats ==
    /\ UNCHANGED srvVars
    /\ Running
    /\ \E t \in tasks :
        /\ t.kind = "refreshTimer" /\ t.due <= now
        /\ tasks' = tasks \cup {RefreshReq(t)}
    /\ hist' = [Obs(hist, "refreshSent") EXCEPT !.refreshReqs = @ + 1]
    /\ UNCHANGED <<proc, exitCode, file, io, tokens, isLoaded,
                   globalToken, pc, attempts, shutdownInProgress, issued>>

\* manageKeepAlive's timer fires and sends the refresh request
RefreshTimerFired ==
    /\ UNCHANGED srvVars
    /\ Running
    /\ \E t \in tasks :
        /\ t.kind = "refreshTimer" /\ t.due <= now
        /\ tasks' = (tasks \ {t}) \cup {RefreshReq(t)}
    /\ hist' = [Obs(hist, "refreshSent") EXCEPT !.refreshReqs = @ + 1]
    /\ UNCHANGED <<proc, exitCode, file, io, tokens, isLoaded,
                   globalToken, pc, attempts, shutdownInProgress, issued>>

\* a refresh callback that stores the new record and arms no timer
RefreshSucceededOnce ==
    /\ UNCHANGED srvVars
    /\ Running
    /\ issued < MaxIssued
    /\ \E r \in tasks, e \in ExpiresIns, iv \in IVs :
        /\ r.kind = "refreshReq"
        /\ setTokens(TokenResponse(issued + 1, e), io, iv)
        /\ globalToken' = TokenResponse(issued + 1, e)
        /\ tasks' = tasks \ {r}
        /\ hist' = [Obs(hist, "refreshSucceeded") EXCEPT
                               !.renewals = @ + 1, !.recovering = FALSE]
    /\ issued' = issued + 1
    /\ UNCHANGED <<proc, exitCode, file, isLoaded, pc, attempts,
                   shutdownInProgress>>

\* the scheduled refresh succeeds: manageKeepAlive(newAccessToken)
RefreshSucceeded ==
    /\ UNCHANGED srvVars
    /\ Running
    /\ issued < MaxIssued
    /\ \E r \in tasks, e \in ExpiresIns :
        /\ r.kind = "refreshReq"
        /\ manageKeepAlive(TokenResponse(issued + 1, e), io, tasks \ {r},
                           [hist EXCEPT !.renewals = @ + 1],
                           "refreshSucceeded")
    /\ issued' = issued + 1
    /\ UNCHANGED <<proc, exitCode, file, isLoaded, pc, attempts,
                   shutdownInProgress>>

\* a clearTokens that only drops the record
clearTokensLeavesFile ==
    /\ tokens' = Null
    /\ io' = io

\* a clearTokens that only deletes the file
clearTokensKeepsRecord ==
    /\ tokens' = tokens
    /\ io' = io \cup {UnlinkOp("clear")}

\* TokenManager.clearTokens(): the record is dropped, deleteTokens is started
clearTokens ==
    /\ tokens' = Null
    /\ io' = io \cup {UnlinkOp("clear")}

\* a catch block that clears the tokens and arms no retry
RefreshFailedGivesUp ==
    /\ UNCHANGED srvVars
    /\ Running
    /\ \E r \in tasks :
        /\ r.kind = "refreshReq"
        /\ tasks' = tasks \ {r}
    /\ clearTokens
    /\ hist' = [Obs(hist, "refreshFailed") EXCEPT !.devReqs = 0,
                            !.refreshReqs = 0, !.recovering = TRUE]
    /\ UNCHANGED <<proc, exitCode, file, isLoaded, globalToken, pc,
                   attempts, shutdownInProgress, issued>>

\* the scheduled refresh fails: clearTokens, then the retry timer
RefreshFailed ==
    /\ UNCHANGED srvVars
    /\ Running
    /\ \E r \in tasks :
        /\ r.kind = "refreshReq"
        /\ tasks' = (tasks \ {r}) \cup {BackoffTimer}
    /\ clearTokens
    /\ hist' = [Obs(hist, "refreshFailed") EXCEPT !.devReqs = 0,
                            !.refreshReqs = 0, !.recovering = TRUE]
    /\ UNCHANGED <<proc, exitCode, file, isLoaded, globalToken, pc,
                   attempts, shutdownInProgress, issued>>

\* the retry timer fires: manageTwitchLogin()
BackoffFired ==
    /\ UNCHANGED srvVars
    /\ Running
    /\ \E b \in tasks :
        /\ b.kind = "backoff" /\ b.due <= now
        /\ manageTwitchLogin(tasks \ {b},
               [hist EXCEPT !.overlap = @ \/ pc # "done"])
    /\ UNCHANGED <<proc, exitCode, file, attempts, shutdownInProgress,
                   issued>>

----------------------------------------------------------------------------
(* utils/serverUtils.js *)

\* SIGINT or SIGTERM: onServerShutdown
onServerShutdown ==
    /\ UNCHANGED srvVars
    /\ Running
    /\ IF shutdownInProgress
       THEN UNCHANGED <<tasks, shutdownInProgress, hist>>
       ELSE /\ shutdownInProgress' = TRUE
            /\ tasks' = tasks \cup {ExitTimer}
            /\ hist' = Obs(hist, "shutdown")
    /\ UNCHANGED <<proc, exitCode, file, io, tokens, isLoaded,
                   globalToken, pc, attempts, issued>>

\* the timer of onServerShutdown: process.exit(0)
ExitTimerFired ==
    /\ UNCHANGED srvVars
    /\ Running
    /\ \E t \in tasks : t.kind = "exitTimer" /\ t.due <= now
    /\ ProcessExit(0, "exit")

\* the server is started again
Restart ==
    /\ UNCHANGED srvVars
    /\ proc = "exited"
    /\ proc' = "running"
    /\ exitCode' = -1
    /\ hist' = HistInit
    /\ UNCHANGED <<file, io, tokens, isLoaded, globalToken, pc, attempts,
                   tasks, shutdownInProgress, issued>>

----------------------------------------------------------------------------
(* The file system and the clock *)

\* fs.writeFile opens the file with flag "w": the old content is gone
WriteOpened ==
    /\ UNCHANGED srvVars
    /\ \E o \in Writes :
           /\ o.stage = "queued"
           /\ file' = Truncated
           /\ io' = (io \ {o}) \cup {[o EXCEPT !.stage = "open", !.over = file]}
           /\ hist' = Obs(hist, "writeOpened")
       /\ UNCHANGED <<proc, exitCode, tokens, isLoaded, globalToken, pc,
                      attempts, tasks, shutdownInProgress, issued>>

\* the data is written and the file closed
WriteCompleted ==
    /\ UNCHANGED srvVars
    /\ \E o \in Writes :
           /\ o.stage = "open"
           /\ file' = IF o.orphan THEN file ELSE o.data
           /\ io' = io \ {o}
           /\ hist' = Obs(hist, "writeCompleted")
       /\ UNCHANGED <<proc, exitCode, tokens, isLoaded, globalToken, pc,
                      attempts, tasks, shutdownInProgress, issued>>

\* writeFile rejects, before the open or after it: saveTokens' catch logs
WriteFailed ==
    /\ UNCHANGED srvVars
    /\ \E o \in Writes :
           /\ io' = io \ {o}
           /\ hist' = Obs(hist, "writeFailed")
       /\ UNCHANGED <<proc, exitCode, file, tokens, isLoaded, globalToken,
                      pc, attempts, tasks, shutdownInProgress, issued>>

\* a deleteTokens that lets ENOENT through: the rejection is unhandled and
\* ends the process
UnlinkedThrowsOnMissing ==
    /\ UNCHANGED srvVars
    /\ \E u \in Unlinks :
           IF file = NoFile
           THEN ProcessExit(1, "unlinkFailed")
           ELSE /\ file' = NoFile
                /\ io' = {IF o.op = "write" /\ o.stage = "open"
                          THEN [o EXCEPT !.orphan = TRUE] ELSE o : o \in io \ {u}}
                /\ IF u.by = "load"
                   THEN /\ pc = "reaping"
                        /\ isLoaded' = TRUE
                        /\ tokens' = Null
                        /\ pc' = "deviceCode"
                        /\ hist' = [Obs(hist, "loadReaped") EXCEPT
                                                !.devReqs = @ + 1]
                        /\ UNCHANGED <<globalToken, tasks>>
                   ELSE /\ hist' = Obs(hist, "unlinked")
                        /\ UNCHANGED <<tokens, isLoaded, globalToken, pc, tasks>>
                /\ UNCHANGED <<proc, exitCode, attempts, shutdownInProgress,
                               issued>>

\* fs.unlink is done (ENOENT is ignored): the name is gone, and a file that
\* a writeFile holds open is no longer the token file
Unlinked ==
    /\ UNCHANGED srvVars
    /\ \E u \in Unlinks :
           /\ file' = NoFile
           /\ LET io1 == {IF o.op = "write" /\ o.stage = "open"
                          THEN [o EXCEPT !.orphan = TRUE] ELSE o : o \in io \ {u}}
              IN IF u.by = "load"
                 THEN \* loadTokens returns null: initialize() and the login go on
                      /\ pc = "reaping"
                      /\ isLoaded' = TRUE
                      /\ io' = io1
                      /\ tokens' = Null
                      /\ pc' = "deviceCode"
                      /\ hist' = [Obs(hist, "loadReaped") EXCEPT
                                              !.devReqs = @ + 1]
                      /\ UNCHANGED <<globalToken, tasks>>
                 ELSE /\ io' = io1
                      /\ hist' = Obs(hist, IF file = NoFile THEN "unlinkedMissing"
                                           ELSE "unlinked")
                      /\ UNCHANGED <<tokens, isLoaded, globalToken, pc, tasks>>
       /\ UNCHANGED <<proc, exitCode, attempts, shutdownInProgress, issued>>

\* a login is under way, or a refresh request in flight
Busy ==
    /\ Running
    /\ \/ pc \in {"loading", "reaping", "startupRefresh", "deviceCode",
                  "polling", "pollWait"}
       \/ \E t \in tasks : t.kind = "refreshReq"

\* a token object, the text of the token file and a task, d seconds later
RebaseRecord(r, d) ==
    [f \in DOMAIN r |->
        IF f \in {"expires_at", "saved_at"} THEN r[f] - d ELSE r[f]]

RECURSIVE RebasePairs(_, _)
RebasePairs(s, d) ==
    IF s = <<>> THEN <<>>
    ELSE << IF s[1][1] \in {"expires_at", "saved_at"}
            THEN <<s[1][1], s[1][2] - d>> ELSE s[1] >>
         \o RebasePairs(Tail(s), d)

RebaseFile(content, d) ==
    IF Has(content, "cipher")
    THEN [content EXCEPT !.cipher.text.json = RebasePairs(@, d)]
    ELSE content

RebaseTask(t, d) ==
    IF t.kind \in {"refreshTimer", "refreshReq"}
    THEN [t EXCEPT !.due = @ - d, !.armed = @ - d,
                   !.rec = RebaseRecord(@, d)]
    ELSE [t EXCEPT !.due = @ - d]

\* the instants at which something changes for a stored or held record: it
\* comes within five minutes of its expiry, it expires, and a timer armed
\* for its expires_in would no longer fire before its expiry
InstantsOf(r) ==
    (IF Has(r, "expires_at")
     THEN {r.expires_at - fiveMinutes + 1, r.expires_at} ELSE {})
    \cup (IF Has(r, "saved_at")
          THEN {r.saved_at + refreshLeadSeconds + 1} ELSE {})

Instants ==
    {t.due : t \in ClockTimers}
    \cup (IF Has(file, "cipher")
          THEN InstantsOf(JSONparse(file.cipher.text)) ELSE {})
    \cup InstantsOf(tokens) \cup InstantsOf(globalToken)

\* The clock moves on to the next instant at which something changes, never
\* beyond a timer that is due.  It counts the lifetimes of tokens: fs
\* operations, requests and the waits of a login are over before it moves.
Tick ==
    /\ UNCHANGED srvVars
    /\ io = {}
    /\ ~Busy
    /\ \A t \in ClockTimers : t.due > now
    /\ \E p \in Instants :
        /\ p > now
        /\ \A q \in Instants : q > now => p <= q
        /\ LET d == p - now
           IN /\ file' = RebaseFile(file, d)
              /\ tokens' = RebaseRecord(tokens, d)
              /\ globalToken' = RebaseRecord(globalToken, d)
              /\ tasks' = {RebaseTask(t, d) : t \in tasks}
    /\ hist' = Obs(hist, "tick")
    /\ UNCHANGED <<proc, exitCode, io, isLoaded, pc, attempts,
                   shutdownInProgress, issued>>

\* the wait between two polls is over, unless the process is to exit first
PollWaitElapsed ==
    /\ UNCHANGED srvVars
    /\ Running /\ pc = "pollWait"
    /\ \A t \in ClockTimers : t.due > now
    /\ \E t \in tasks :
        /\ t.kind = "pollTimer" /\ t.due > now
        /\ tasks' = (tasks \ {t}) \cup {[t EXCEPT !.due = now]}
    /\ hist' = Obs(hist, "pollWaitElapsed")
    /\ UNCHANGED <<proc, exitCode, file, io, tokens, isLoaded, globalToken,
                   pc, attempts, shutdownInProgress, issued>>

Next ==
    \/ ServerStart
    \/ LoadAnswered
    \/ DeviceCodeGranted
    \/ DeviceCodeFailed
    \/ PollSucceeded
    \/ PollFailed
    \/ PollTimerFired
    \/ StartupRefreshSucceeded
    \/ StartupRefreshFailed
    \/ RefreshTimerFired
    \/ RefreshSucceeded
    \/ RefreshFailed
    \/ BackoffFired
    \/ onServerShutdown
    \/ ExitTimerFired
    \/ Restart
    \/ WriteOpened
    \/ WriteCompleted
    \/ WriteFailed
    \/ Unlinked
    \/ Tick
    \/ PollWaitElapsed

Spec == Init /\ [][Next]_vars

\* Every request sent is answered, every timer that is due fires and the
\* unlink loadTokens awaits completes: what a manageTwitchLogin call awaits
\* comes.
Fairness ==
    /\ WF_vars(LoadAnswered)
    /\ WF_vars(Unlinked)
    /\ WF_vars(DeviceCodeGranted \/ DeviceCodeFailed)
    /\ WF_vars(PollSucceeded \/ PollFailed)
    /\ WF_vars(PollWaitElapsed)
    /\ WF_vars(PollTimerFired)
    /\ WF_vars(StartupRefreshSucceeded \/ StartupRefreshFailed)
    /\ WF_vars(ExitTimerFired)

SpecLive == Init /\ [][Next]_vars /\ Fairness

----------------------------------------------------------------------------
(* index.js and utils/serverUtils.js: finding a port and listening on it.   *)
(* Other processes of the host bind and release ports at any time.          *)

\* isPortAvailable(port) answers findAvailablePort: a probe server could
\* listen on the port (and was closed), or its listen failed
ProbeAnswered ==
    /\ Running /\ pc = "probing"
    /\ IF port \in ports
       THEN /\ pc' = "listening"
            /\ port' = port
            /\ hist' = [hist EXCEPT !.last = "portFound"]
            /\ UNCHANGED <<proc, exitCode, io, tokens, isLoaded, globalToken,
                           attempts, tasks, shutdownInProgress>>
       ELSE IF port + 1 <= MaxPort
       THEN /\ port' = port + 1
            /\ hist' = [hist EXCEPT !.last = "portBusy"]
            /\ UNCHANGED <<proc, exitCode, io, tokens, isLoaded, globalToken,
                           attempts, tasks, shutdownInProgress, pc>>
       ELSE /\ port' = port + 1
            /\ ProcessExit(1, "noPort")
    /\ UNCHANGED <<file, issued, startPort, ports, server, chatters, call,
                   res>>

\* app.listen(availablePort) answers: its callback runs onServerStart, or
\* the server's error event rejects and index.js calls process.exit(1)
ListenAnswered ==
    /\ Running /\ pc = "listening"
    /\ IF port \in ports
       THEN /\ server' = port
            /\ ports' = ports \ {port}
            /\ manageTwitchLogin(tasks, hist)
            /\ UNCHANGED <<proc, exitCode, attempts, shutdownInProgress>>
       ELSE /\ ProcessExit(1, "listenFailed")
            /\ UNCHANGED <<server, ports>>
    /\ UNCHANGED <<file, issued, startPort, port, chatters, call, res>>

\* another process binds a port
PortTaken ==
    /\ Running /\ pc \in {"probing", "listening"}
    /\ \E p \in ports : ports' = ports \ {p}
    /\ hist' = [hist EXCEPT !.last = "portTaken"]
    /\ UNCHANGED <<proc, exitCode, file, io, tokens, isLoaded, globalToken,
                   pc, attempts, tasks, shutdownInProgress, issued,
                   startPort, port, server, chatters, call, res>>

\* another process closes the port it had bound
PortReleased ==
    /\ Running /\ pc \in {"probing", "listening"}
    /\ \E p \in Ports \ ports : ports' = ports \cup {p}
    /\ hist' = [hist EXCEPT !.last = "portReleased"]
    /\ UNCHANGED <<proc, exitCode, file, io, tokens, isLoaded, globalToken,
                   pc, attempts, tasks, shutdownInProgress, issued,
                   startPort, port, server, chatters, call, res>>

\* index.js calls startServerWithPortFinding(app, PORT): findAvailablePort
\* has sent its first probe
InitPort ==
    /\ proc = "running"
    /\ exitCode = -1
    /\ file = NoFile
    /\ io = {}
    /\ tokens = Null
    /\ isLoaded = FALSE
    /\ globalToken = Undefined
    /\ pc = "probing"
    /\ attempts = 0
    /\ tasks = {}
    /\ shutdownInProgress = FALSE
    /\ issued = 0
    /\ hist = HistInit
    /\ startPort \in Ports
    /\ port = startPort
    /\ ports \in SUBSET Ports
    /\ server = NotListening
    /\ chatters = 0
    /\ call = Null
    /\ res = Null

NextPort ==
    \/ ProbeAnswered
    \/ ListenAnswered
    \/ PortTaken
    \/ PortReleased

SpecPort == InitPort /\ [][NextPort]_vars

----------------------------------------------------------------------------
(* routes/index.js GET /random-chatter and routes/twitch.js getRandomChatter *)

\* JavaScript values the function computes with
NaN == [kind |-> "NaN"]
Num(n) == [kind |-> "number", v |-> n]
Str(k) == [kind |-> "string", of |-> k]
IsNum(v) == v.kind = "number"

\* !v
Falsy(v) == v \in {Undefined, Null, NaN, Num(0)}

\* a > b: false when either side is undefined or NaN
Greater(a, b) == IsNum(a) /\ IsNum(b) /\ a.v > b.v

\* a += n
PlusAssign(a, n) == IF IsNum(a) THEN Num(a.v + n) ELSE NaN

\* the body the chatters endpoint answers for a channel of total chatters
\* and the cursor given: the page that starts at the cursor, PageSize
\* chatters at most; chatter k has user_name Str(k)
Offset(cursor) == IF IsNum(cursor) THEN cursor.v ELSE 0
PageLen(total, cursor) ==
    IF total - Offset(cursor) < PageSize
    THEN Max(0, total - Offset(cursor)) ELSE PageSize
PaginationCursor(total, cursor) ==
    IF Offset(cursor) + PageSize < total
    THEN Num(Offset(cursor) + PageSize) ELSE Undefined

\* chatters.data[i]
DataAt(total, cursor, i) ==
    IF IsNum(i) /\ 0 <= i.v /\ i.v < PageLen(total, cursor)
    THEN [user_name |-> Str(Offset(cursor) + i.v)]
    ELSE Undefined

\* the route's answer for what getRandomChatter returned
Reply(choosenChatter) ==
    IF Falsy(choosenChatter)
    THEN [status |-> 204]
    ELSE [status |-> 200, user |-> choosenChatter]

\* GET /random-chatter: getRandomChatter() up to its axios.get, or to its
\* throw when no credential is held (the catch logs, undefined is returned)
RandomChatterRequested ==
    /\ Running /\ call = Null
    /\ IF Falsy(globalToken)
       THEN /\ res' = Reply(Undefined)
            /\ call' = Null
            /\ hist' = [hist EXCEPT !.last = "noCredential"]
       ELSE /\ res' = Null
            /\ call' = [cursor |-> Undefined,
                        choosenChatterIndex |-> Undefined,
                        lastChatterIndex |-> Undefined]
            /\ hist' = [hist EXCEPT !.last = "chattersSent"]
    /\ UNCHANGED <<proc, exitCode, file, io, tokens, isLoaded, globalToken,
                   pc, attempts, tasks, shutdownInProgress, issued,
                   startPort, port, ports, server, chatters>>

\* the chatters endpoint answers: null for an empty channel; else the index
\* is drawn if none is held, and the next page is asked for or the chatter
\* at the index is read (a TypeError when there is none: the catch logs and
\* undefined is returned)
ChattersAnswered ==
    /\ Running /\ call # Null
    /\ IF chatters = 0
       THEN /\ res' = Reply(Null)
            /\ call' = Null
            /\ hist' = [hist EXCEPT !.last = "noChatters"]
       ELSE \E random \in 0..(chatters - 1) :
              LET choosenChatterIndex ==
                      IF Falsy(call.choosenChatterIndex)
                      THEN Num(random) ELSE call.choosenChatterIndex
                  chatter == DataAt(chatters, call.cursor,
                                    choosenChatterIndex)
              IN IF /\ Greater(choosenChatterIndex, Num(1000))
                    /\ Greater(choosenChatterIndex, call.lastChatterIndex)
                 THEN /\ call' =
                           [cursor |-> PaginationCursor(chatters,
                                                        call.cursor),
                            choosenChatterIndex |-> choosenChatterIndex,
                            lastChatterIndex |->
                                PlusAssign(call.lastChatterIndex, 1000)]
                      /\ res' = res
                      /\ hist' = [hist EXCEPT !.last = "chattersSent"]
                 ELSE /\ res' = Reply(IF chatter = Undefined THEN Undefined
                                      ELSE chatter.user_name)
                      /\ call' = Null
                      /\ hist' = [hist EXCEPT !.last = "chatterReturned"]
    /\ UNCHANGED <<proc, exitCode, file, io, tokens, isLoaded, globalToken,
                   pc, attempts, tasks, shutdownInProgress, issued,
                   startPort, port, ports, server, chatters>>

\* axios.get throws: the catch logs and undefined is returned
ChattersFailed ==
    /\ Running /\ call # Null
    /\ res' = Reply(Undefined)
    /\ call' = Null
    /\ hist' = [hist EXCEPT !.last = "chattersFailed"]
    /\ UNCHANGED <<proc, exitCode, file, io, tokens, isLoaded, globalToken,
                   pc, attempts, tasks, shutdownInProgress, issued,
                   startPort, port, ports, server, chatters>>

\* the server is up, with or without a credential, for a channel of any size
InitChatter ==
    /\ proc = "running"
    /\ exitCode = -1
    /\ file = NoFile
    /\ io = {}
    /\ globalToken \in {Undefined} \cup {TokenResponse(1, e) : e \in ExpiresIns}
    /\ tokens = IF globalToken = Undefined THEN Null ELSE globalToken
    /\ isLoaded = TRUE
    /\ pc = "done"
    /\ attempts = 0
    /\ tasks = {}
    /\ shutdownInProgress = FALSE
    /\ issued = 1
    /\ hist = HistInit
    /\ startPort = MinPort
    /\ port = MinPort
    /\ ports = Ports \ {MinPort}
    /\ server = MinPort
    /\ chatters \in Totals
    /\ call = Null
    /\ res = Null

NextChatter ==
    \/ RandomChatterRequested
    \/ ChattersAnswered
    \/ ChattersFailed

SpecChatter == InitChatter /\ [][NextChatter]_vars

----------------------------------------------------------------------------
(* TokenManager.initialize() under any callers: the singleton is exported,  *)
(* and each call is a promise of its own.  tasks holds the loads awaited    *)
(* and the values returned.                                                 *)

CallIds == 1..MaxCalls

\* initialize() is called: up to its await, or to its return when isLoaded
initializeCalled ==
    /\ UNCHANGED srvVars
    /\ Running
    /\ \E id \in CallIds :
        /\ \A t \in tasks : t.id # id
        /\ IF ~isLoaded
           THEN /\ tasks' = tasks \cup {[kind |-> "load", id |-> id]}
                /\ hist' = [hist EXCEPT !.last = "loadSent", !.loads = @ + 1]
           ELSE /\ tasks' = tasks \cup {[kind |-> "returned", id |-> id,
                                         value |-> tokens]}
                /\ hist' = [hist EXCEPT !.last = "returned"]
    /\ UNCHANGED <<proc, exitCode, file, io, tokens, isLoaded, globalToken,
                   pc, attempts, shutdownInProgress, issued>>

\* loadTokens answers one of the calls: this.tokens, isLoaded, return
initializeLoaded ==
    /\ UNCHANGED srvVars
    /\ Running
    /\ \E l \in tasks :
        /\ l.kind = "load"
        /\ ~loadTokens(file, now).reap
        /\ tokens' = loadTokens(file, now).result
        /\ isLoaded' = TRUE
        /\ tasks' = (tasks \ {l}) \cup {[kind |-> "returned", id |-> l.id,
                                          value |-> tokens']}
    /\ hist' = [hist EXCEPT !.last = "loaded"]
    /\ UNCHANGED <<proc, exitCode, file, io, globalToken, pc, attempts,
                   shutdownInProgress, issued>>

NextInitialize ==
    \/ initializeCalled
    \/ initializeLoaded

SpecInitialize == Init /\ [][NextInitialize]_vars

----------------------------------------------------------------------------
(* Properties *)

PollTimers == {t \in tasks : t.kind = "pollTimer"}
RefreshTimers == {t \in tasks : t.kind = "refreshTimer"}
Backoffs == {t \in tasks : t.kind = "backoff"}

\* C1: a pollForAccessToken run never sends more than maxAttempts (100)
\* requests, and a run in which every request was answered
\* authorization_pending ends, after exactly 100 requests, with the
\* authorization-timeout error (process.exit(1) in manageTwitchLogin's catch)
\* and never with a record.
C1_BoundedPolling ==
    /\ hist.pollCalls <= maxAttempts
    /\ (hist.last = "authTimeout" /\ hist.allPending)
           => (hist.pollCalls = maxAttempts /\ proc = "exited" /\ exitCode = 1)
    /\ (hist.pollCalls > 0 /\ hist.allPending
           /\ pc \notin {"polling", "pollWait"})
           => hist.last \in {"authTimeout", "exit"}

C1_Witness ==
    /\ hist.last = "authTimeout" /\ hist.allPending
    /\ hist.pollCalls = maxAttempts
    /\ exitCode = 1

\* C2: when the token endpoint answers a poll with a record, that record is
\* what the login adopts (pollForAccessToken returned it), the loop is over
\* and no wait for a further request of that grant is pending.
C2_EarlySuccess ==
    /\ hist.last = "pollSucceeded"
           => /\ pc = "done"
              /\ \E e \in ExpiresIns : getTokens = TokenResponse(issued, e)
              /\ hist.pollCalls \in 1..maxAttempts
    /\ pc \notin {"polling", "pollWait"} => PollTimers = {}

C2_Witness ==
    /\ hist.last = "pollSucceeded"
    /\ hist.pollCalls = 3
    /\ getTokens.access_token = issued
    /\ PollTimers = {}

\* C3: a failed scheduled refresh leaves the process running with
\* getTokens() absent and the 5-second retry timer armed; until a credential
\* is adopted again no refresh request is sent, no device-code request is
\* sent before the timer fires and exactly one once it has fired.
C3_RefreshFailureRecovery ==
    /\ hist.last = "refreshFailed"
           => /\ Running
              /\ Backoffs = {[kind |-> "backoff", due |-> now + retryDelay]}
    /\ hist.recovering
           => /\ Running
              /\ getTokens = Null
              /\ hist.refreshReqs = 0
              /\ IF Backoffs # {}
                 THEN hist.devReqs = 0 /\ pc = "done"
                 ELSE hist.devReqs = 1
                      /\ pc \in {"deviceCode", "polling", "pollWait"}

C3_Witness ==
    /\ hist.recovering
    /\ hist.last = "deviceCodeSent"
    /\ hist.devReqs = 1 /\ hist.refreshReqs = 0
    /\ getTokens = Null /\ Running

\* the expiry of the record a refresh timer was armed for: its expires_at,
\* and for the answer of the token endpoint, which carries none, the time of
\* the answer plus expires_in
ExpiresAt(t) ==
    IF Has(t.rec, "expires_at") THEN t.rec.expires_at
    ELSE t.armed + t.rec.expires_in

\* C4: the refresh timer armed for an adopted record (from the device flow,
\* from a refresh, or loaded from the token file) is due before that record
\* expires.
C4_TimerBeforeExpiry ==
    \A t \in RefreshTimers : t.due < ExpiresAt(t)

\* C5: the record manageKeepAlive handed to setTokens (the one its timer or
\* its refresh request holds) is what getTokens() returns from then on until
\* the next setTokens or clearTokens, whether the write that setTokens
\* started is queued, open, completed or has failed.
C5_ReadAfterWrite ==
    \A t \in tasks :
        t.kind \in {"refreshTimer", "refreshReq"} => getTokens = t.rec

C5_Witness ==
    /\ hist.last = "writeFailed"
    /\ file = Truncated
    /\ Truthy(getTokens)
    /\ \E t \in RefreshTimers : t.rec = getTokens
    /\ \E o \in Writes : o.stage = "queued" /\ o.arg = getTokens

\* the credential a holder has, absent whether null or undefined
CredOf(v) == IF Truthy(v) THEN v ELSE Null

\* C6: while the process runs, global.twitchAccessToken and
\* tokenManager.getTokens() are the same credential, or both absent.
C6_SingleCredential ==
    Running => CredOf(globalToken) = CredOf(getTokens)

\* C7: when the token file read at startup cannot be decrypted or parsed,
\* what loadTokens returns differs from what it returns for a missing file.
C7_CorruptDistinguishable ==
    (Running /\ pc = "loading" /\ file # NoFile
        /\ decrypt(file, ENCRYPTION_KEY) = DecryptError)
    => loadTokens(file, now).result # loadTokens(NoFile, now).result

\* C8: when a writeFile that replaced a persisted blob fails after its open,
\* or the process exits before it completes, the token file still holds that
\* blob.
C8_FailedWriteKeepsPrevious ==
    [][\A o \in Writes :
          (/\ o.stage = "open" /\ ~o.orphan
           /\ Has(o.over, "cipher")
           /\ o \notin io'
           /\ hist'.last \in {"writeFailed", "exit", "authTimeout",
                               "deviceCodeFailed"})
          => file' = o.over]_vars

\* C9: when the write saveTokens(r) started completes, loadTokens at that
\* moment returns a record that has every field of r with r's value.
C9_RoundTrip ==
    [][\A o \in Writes :
          (/\ o.stage = "open" /\ ~o.orphan
           /\ o \notin io'
           /\ hist'.last = "writeCompleted"
           /\ file' = o.data)
          => LET l == loadTokens(file', now).result
             IN \A f \in DOMAIN o.arg : Has(l, f) /\ l[f] = o.arg[f]]_vars

\* C10: the step of a starting process in which loadTokens answers a record
\* that does not need refresh makes that record tokenManager's and the
\* global's, arms the refresh timer for it and ends the login, and neither
\* before nor in that step is a device-code or a token request sent.
C10_FreshStartup ==
    [][(/\ Running /\ pc = "loading" /\ pc' # "loading"
        /\ proc' = "running"
        /\ Truthy(loadTokens(file, now).result)
        /\ ~needsRefresh(loadTokens(file, now).result, now))
       => LET r == loadTokens(file, now).result
          IN /\ tokens' = r
             /\ globalToken' = r
             /\ pc' = "done"
             /\ \E t \in tasks' : /\ t.kind = "refreshTimer"
                                  /\ t.rec = r /\ t.armed = now
             /\ hist.devReqs = 0 /\ hist.refreshReqs = 0
             /\ hist'.devReqs = 0 /\ hist'.refreshReqs = 0]_vars

C10_Witness ==
    /\ hist.last = "adoptStored"
    /\ hist.devReqs = 0 /\ hist.refreshReqs = 0
    /\ Has(getTokens, "saved_at")
    /\ globalToken = getTokens
    /\ pc = "done"
    /\ \E t \in RefreshTimers : t.rec = getTokens /\ t.armed = now

\* C11: the step of a starting process in which loadTokens answers a record
\* that needs refresh sends one refresh request with that record's
\* refresh_token and nothing else; the step that ends the wait for its answer
\* either adopts the refreshed record (tokenManager, global, timer) with no
\* device-code request sent, or, the refresh having failed, sends the
\* device-code request, and no second refresh request.
C11_StaleStartup ==
    [][/\ (/\ Running /\ pc = "loading" /\ pc' # "loading"
            /\ proc' = "running"
            /\ Truthy(loadTokens(file, now).result)
            /\ needsRefresh(loadTokens(file, now).result, now))
           => /\ pc' = "startupRefresh"
              /\ hist'.refreshReqs = 1 /\ hist'.devReqs = 0
              /\ hist'.refreshWith
                     = loadTokens(file, now).result.refresh_token
              /\ tasks' = tasks /\ globalToken' = globalToken
       /\ (/\ Running /\ pc = "startupRefresh" /\ pc' # "startupRefresh"
            /\ proc' = "running")
           => /\ hist.refreshReqs = 1 /\ hist'.refreshReqs = 1
              /\ \/ /\ hist'.last = "startupRefreshSucceeded"
                    /\ pc' = "done"
                    /\ hist'.devReqs = 0
                    /\ \E e \in ExpiresIns :
                           tokens' = TokenResponse(issued', e)
                    /\ globalToken' = tokens'
                    /\ \E t \in tasks' : /\ t.kind = "refreshTimer"
                                         /\ t.rec = tokens'
                 \/ /\ hist'.last = "deviceCodeSent"
                    /\ pc' = "deviceCode"
                    /\ hist'.devReqs = 1
                    /\ tokens' = tokens /\ tasks' = tasks]_vars

C11_Witness ==
    /\ hist.last = "startupRefreshSucceeded"
    /\ hist.refreshReqs = 1 /\ hist.devReqs = 0
    /\ hist.refreshWith = 0
    /\ getTokens.access_token = issued
    /\ globalToken = getTokens

\* C12: when getUserCode throws, or pollForAccessToken has used up its
\* attempts, the process has exited with a code other than 0, and with it
\* no timer is pending, no write was started and neither tokenManager nor
\* the global holds a credential.
C12_DeviceFlowFailureIsFatal ==
    hist.last \in {"deviceCodeFailed", "authTimeout"}
    => /\ proc = "exited"
       /\ exitCode # 0 /\ exitCode # -1
       /\ tasks = {}
       /\ io = {}
       /\ ~Truthy(getTokens)
       /\ ~Truthy(globalToken)

C12_Witness ==
    /\ hist.last = "deviceCodeFailed"
    /\ proc = "exited"
    /\ exitCode = 1
    /\ RefreshTimers = {}
    /\ Has(file, "cipher")

KeepAlives == {t \in tasks : t.kind \in {"refreshTimer", "refreshReq"}}

\* C13: right after a scheduled refresh succeeded the record it answered is
\* tokenManager's (through setTokens, whose write is queued) and the
\* global's, and the one refresh timer pending is armed for that record with
\* its expires_in; and whenever a login is over and a record is held, its
\* renewal is pending as a timer or a request, however many renewals went
\* before.
C13_RenewalRearms ==
    /\ hist.last = "refreshSucceeded"
           => /\ Running
              /\ \E e \in ExpiresIns : getTokens = TokenResponse(issued, e)
              /\ globalToken = getTokens
              /\ KeepAlives = {RefreshTimer(getTokens)}
              /\ \E o \in Writes : o.stage = "queued" /\ o.arg = getTokens
    /\ (Running /\ pc = "done" /\ Truthy(getTokens))
           => \E t \in KeepAlives : KeepAlives = {t} /\ t.rec = getTokens

C13_Witness ==
    /\ hist.last = "refreshSent"
    /\ hist.renewals = 1
    /\ \E t \in KeepAlives :
          /\ t.kind = "refreshReq"
          /\ t.rec = getTokens
          /\ t.rec.access_token = issued

\* C14: once onServerShutdown has begun the shutdown, no pending poll wait,
\* refresh timer or retry timer fires while the process still runs: each
\* is still pending, unfired, in the next state (the code has no step that
\* cancels a timer).
C14_NoFiringAfterShutdown ==
    [][(shutdownInProgress /\ proc' = "running")
       => \A t \in tasks :
             t.kind \in {"pollTimer", "refreshTimer", "backoff"}
             => t \in tasks']_vars

\* C15: after the token endpoint has answered a poll with expired_token or
\* access_denied, the wait that follows is not ended by another poll
\* request.
C15_TerminalErrorsEndPolling ==
    [][(pc = "pollWait" /\ hist.lastErr \in {"expired_token", "access_denied"})
       => hist'.last # "pollSent"]_vars

\* C16: a poll request that fails in transport leaves the process running:
\* the attempt is counted, the wait is armed, and when the wait is over the
\* next request is sent if fewer than maxAttempts attempts are counted, the
\* authorization timeout is thrown otherwise (unless a shutdown ends the
\* process first).
C16_NetworkErrorAbsorbed ==
    [][/\ (pc = "polling" /\ hist'.last \in {"pollFailed", "pollAborted"})
           => (hist'.last = "pollFailed"
               /\ (hist'.lastErr = "network"
                   => /\ proc' = "running"
                      /\ pc' = "pollWait"
                      /\ attempts' = attempts + 1
                      /\ PollTimer \in tasks'
                      /\ tokens' = tokens))
       /\ (pc = "pollWait" /\ hist.lastErr = "network" /\ pc' # "pollWait")
           => IF hist'.last = "exit" THEN shutdownInProgress
              ELSE IF attempts < maxAttempts
              THEN hist'.last = "pollSent" /\ pc' = "polling"
                   /\ attempts' = attempts
              ELSE hist'.last = "authTimeout"]_vars

C16_Witness ==
    /\ pc = "pollWait"
    /\ hist.lastErr = "network"
    /\ hist.last = "pollFailed"
    /\ attempts = 3 /\ hist.pollCalls = 3
    /\ Running

\* C17: over any calls of initialize(), overlapping ones included, loadTokens
\* is called at most once in a process, and a call made once isLoaded is set
\* returns this.tokens.
C17_LoadsOnce ==
    /\ hist.loads <= 1
    /\ \A t \in tasks : t.kind = "returned" => t.value = getTokens

\* C18: tokenManager.needsRefresh() is true exactly when no record is held,
\* the held record has no expires_at, or now > expires_at - 5 minutes; and
\* for records of any other content, needsRefresh at t is true exactly when
\* expires_at is missing (or 0) or t > expires_at - 5 minutes: true 4
\* minutes before the expiry, false 10 minutes before it and at exactly 5
\* minutes (these facts of the function are evaluated in the states a
\* process starts in).
C18_NeedsRefresh ==
    /\ TokenManagerNeedsRefresh(getTokens, now)
          = (\/ ~Truthy(getTokens)
             \/ ~Has(getTokens, "expires_at")
             \/ now > getTokens.expires_at - 5 * 60)
    /\ hist.last = "start" =>
          /\ \A t \in {0, 1, 60, 300},
                d \in {-1, 0, 1, 240, 299, 300, 301, 600},
                a \in {0, 1}, e \in ExpiresIns :
                /\ needsRefresh([access_token |-> a, refresh_token |-> a,
                                 expires_in |-> e, expires_at |-> t + d,
                                 scopes |-> EnvScopes,
                                 saved_at |-> t + d - e], t)
                      = (t + d = 0 \/ d < 5 * 60)
                /\ needsRefresh(TokenResponse(a, e), t)
          /\ needsRefresh([expires_at |-> 60 + 4 * 60], 60)
          /\ ~needsRefresh([expires_at |-> 60 + 10 * 60], 60)
          /\ TokenManagerNeedsRefresh(Null, now)

C18_Witness ==
    /\ Has(getTokens, "expires_at")
    /\ getTokens.expires_at = now + 5 * 60 - 1
    /\ TokenManagerNeedsRefresh(getTokens, now)
    /\ pc = "done"

\* C19: the refresh timer of an adopted record is due expires_in - 10
\* seconds after the adoption (at once when that is not positive), and its
\* refresh request is sent at that time and not later: for expires_in = 20,
\* 10 seconds after the adoption.
C19_TimerDelay ==
    /\ \A t \in KeepAlives :
          /\ t.due = t.armed + Max(0, t.rec.expires_in - 10)
          /\ t.kind = "refreshTimer" => t.armed <= now /\ now <= t.due
          /\ t.kind = "refreshReq" => now = t.due
          /\ t.rec.expires_in = 20 => t.due = t.armed + 10
    /\ hist.last \in {"pollSucceeded", "refreshSucceeded", "adoptStored",
                       "startupRefreshSucceeded"}
           => \E t \in RefreshTimers :
                 /\ t.armed = now
                 /\ t.rec = getTokens
                 /\ t.due = now + Max(0, getTokens.expires_in - 10)

C19_Witness ==
    /\ hist.last = "refreshSent"
    /\ \E t \in KeepAlives :
          /\ t.kind = "refreshReq"
          /\ t.rec.expires_in = 20
          /\ t.armed = now - 10
          /\ t.due = now

\* a record all of one issuance: an answer of the token endpoint, or a
\* stored one, whose expires_at is its saved_at plus its own expires_in
OneIssuance(r) ==
    \/ r = Null
    \/ \E e \in ExpiresIns : r = TokenResponse(r.access_token, e)
    \/ /\ DOMAIN r = {"access_token", "refresh_token", "expires_in",
                       "expires_at", "scopes", "saved_at"}
       /\ r.access_token = r.refresh_token
       /\ r.expires_at = r.saved_at + r.expires_in

\* C20: what getTokens() returns is always no record or a record all of one
\* issuance, and every step that changes it (other than the passing of
\* time) puts a whole value in its place: null, the answer of the token
\* endpoint just received, or the record loadTokens returned.
C20_ReplacedWhole ==
    [][/\ OneIssuance(tokens')
       /\ (tokens' # tokens /\ hist'.last # "tick")
           => \/ tokens' = Null
              \/ \E e \in ExpiresIns : tokens' = TokenResponse(issued', e)
              \/ tokens' = loadTokens(file, now).result]_vars

C20_Witness ==
    /\ hist.last = "refreshSucceeded"
    /\ hist.renewals = 1
    /\ OneIssuance(getTokens)
    /\ getTokens.access_token = issued
    /\ getTokens.refresh_token = issued
    /\ Has(file, "cipher")
    /\ JSONparse(file.cipher.text).access_token # issued

\* the record a token file holds, Null for a file that cannot be decrypted
Stored(content) ==
    IF Has(content, "cipher") /\ content.cipher.key = ENCRYPTION_KEY
    THEN JSONparse(content.cipher.text) ELSE Null

\* C21: when the loadTokens of a starting process reads a record whose
\* expires_at is not later than now, no record is adopted and the unlink of
\* the token file is started and awaited; when the unlink is done the file
\* is gone, initialize() has answered null, and a loadTokens that followed
\* would find no file.
C21_ExpiredIsReaped ==
    [][/\ (/\ Running /\ pc = "loading" /\ pc' # "loading"
            /\ proc' = "running"
            /\ Has(Stored(file), "expires_at")
            /\ Stored(file).expires_at <= now)
           => /\ pc' = "reaping"
              /\ UnlinkOp("load") \in io'
              /\ tokens' = Null /\ globalToken' = globalToken
              /\ tasks' = tasks
       /\ (/\ Running /\ pc = "reaping" /\ pc' # "reaping"
            /\ proc' = "running")
           => /\ file' = NoFile
              /\ tokens' = Null
              /\ isLoaded'
              /\ loadTokens(file', now)
                    = [result |-> Null, reap |-> FALSE, threw |-> TRUE,
                       enoent |-> TRUE]]_vars

C21_Witness ==
    /\ hist.last = "loadReaped"
    /\ file = NoFile
    /\ getTokens = Null
    /\ isLoaded
    /\ Unlinks = {}

\* C22: the step in which clearTokens runs leaves getTokens() with no record
\* and the unlink of the token file started; and when that unlink is done
\* and no other fs operation is pending, there is no token file.
C22_ClearDropsBoth ==
    [][/\ hist'.last = "refreshFailed"
           => /\ tokens' = Null
              /\ UnlinkOp("clear") \in io'
       /\ (/\ UnlinkOp("clear") \in io /\ UnlinkOp("clear") \notin io'
            /\ proc' = "running" /\ io' = {})
           => /\ file' = NoFile
              /\ tokens' = tokens]_vars

C22_Witness ==
    /\ hist.last = "unlinked"
    /\ hist.recovering
    /\ Running
    /\ io = {}
    /\ file = NoFile
    /\ getTokens = Null

\* C23: a deleteTokens whose unlink finds no token file ends like any other:
\* the process runs on, nothing but the list of pending fs operations
\* changes, and there is still no file; so a second deleteTokens after a
\* first leaves what the first left.
C23_DeleteIdempotent ==
    [][\A u \in Unlinks :
          (u \notin io' /\ file = NoFile
              /\ hist'.last \notin {"exit", "authTimeout", "deviceCodeFailed"})
          => /\ file' = NoFile
             /\ proc' = "running" /\ exitCode' = -1
             /\ hist'.last = "unlinkedMissing"
             /\ tokens' = tokens /\ globalToken' = globalToken
             /\ tasks' = tasks /\ pc' = pc]_vars

C23_Witness ==
    /\ hist.last = "unlinkedMissing"
    /\ file = NoFile
    /\ Running
    /\ Unlinks = {}

\* what encrypt returns: iv, a colon, and the output of the cipher; the JSON
\* text is only inside the cipher's output
IsEncrypted(content) ==
    /\ Has(content, "iv") /\ Has(content, "cipher")
    /\ ~Has(content, "json")
    /\ ~Has(content, "access_token") /\ ~Has(content, "refresh_token")

\* C24: in every reachable state the token file is absent, or was opened
\* for a write that has put nothing into it yet, or holds ivHex:cipherHex;
\* and the data of every write that is pending is ivHex:cipherHex: no
\* access_token or refresh_token reaches the file outside the cipher.
C24_OnlyCiphertext ==
    /\ file \in {NoFile, Truncated} \/ IsEncrypted(file)
    /\ \A o \in Writes : IsEncrypted(o.data)

C24_Witness ==
    /\ hist.last = "writeCompleted"
    /\ IsEncrypted(file)
    /\ file \notin StoredByEarlierRun
    /\ Has(getTokens, "access_token")
    /\ Stored(file).access_token = getTokens.access_token

\* C25: at most one poll request is in flight in every reachable state:
\* manageTwitchLogin is never called while a call of it runs; while a
\* request is in flight no poll wait is pending that would send another;
\* at most one poll wait is pending, and only inside the loop; and while a
\* pollForAccessToken run lasts, no renewal and no retry is pending that
\* could start a second run -- the run after a refresh failure included.
C25_OnePollInFlight ==
    /\ ~hist.overlap
    /\ pc = "polling" => PollTimers = {}
    /\ Cardinality(PollTimers) <= 1
    /\ PollTimers # {} => pc = "pollWait"
    /\ pc \in {"deviceCode", "polling", "pollWait"}
           => Backoffs = {} /\ KeepAlives = {}

C25_Witness ==
    /\ hist.recovering
    /\ pc = "polling"
    /\ hist.pollCalls = 2
    /\ Running

\* C26: the wait armed after a failed poll request is twice the interval of
\* the device-code grant the run polls for.
C26_WaitIsTwiceAdvised ==
    hist.last = "pollFailed"
        => /\ hist.wait = 2 * hist.interval
           /\ \A t \in PollTimers : t.due = DueAt(now, 2 * hist.interval)

\* C27: when a poll request is answered slow_down after an earlier wait of
\* the same run, the wait armed for the next request is strictly longer
\* than that earlier wait.
C27_SlowDownLengthensWait ==
    [][(/\ pc = "polling" /\ hist'.last = "pollFailed"
        /\ hist'.lastErr = "slow_down" /\ hist.wait > 0)
       => hist'.wait > hist.wait]_vars

\* C28: every record saveTokens has written or is writing has expires_at
\* later than saved_at, whether it was made from an answer of the token
\* endpoint or from a record loaded from the file; and so has the record
\* made from any answer the endpoint can give.
C28_ExpiresAfterSaved ==
    /\ \A c \in {file} \cup {o.data : o \in Writes} :
          Has(Stored(c), "saved_at")
              => Stored(c).expires_at > Stored(c).saved_at
    /\ hist.last = "start"
           => \A n \in 0..MaxIssued, e \in ExpiresIns, iv \in IVs :
                 LET r == Stored(SavedBlob(TokenResponse(n, e), now, iv))
                 IN r.expires_at > r.saved_at

C28_Witness ==
    /\ hist.last = "writeCompleted"
    /\ Has(Stored(file), "saved_at")
    /\ Stored(file).saved_at = now
    /\ Stored(file).expires_at > now
    /\ \E e \in ExpiresIns : Stored(file).expires_in = e

\* C29: findAvailablePort probes the ports from startPort upwards and
\* returns the first it finds available, goes on to the next port when the
\* probed one is not available, and fails when the last port of the range
\* is not available either; and when app.listen on the returned port has
\* answered, the server listens on that port.
C29_ListensOnFirstAvailable ==
    [][/\ (pc = "probing" /\ hist'.last \in {"portFound", "portBusy", "noPort"})
          => /\ startPort <= port /\ port <= MaxPort
             /\ port \in ports
                    => pc' = "listening" /\ port' = port /\ proc' = "running"
             /\ (port \notin ports /\ port < MaxPort)
                    => pc' = "probing" /\ port' = port + 1
             /\ (port \notin ports /\ port = MaxPort)
                    => proc' = "exited" /\ exitCode' = 1
       /\ (pc = "listening" /\ pc' # "listening")
          => proc' = "running" /\ server' = port]_vars

\* C30: when a credential is held and the channel has at least one chatter,
\* what getRandomChatter returns after the chatters endpoint answered is
\* the user_name of one of the channel's chatters, so the route answers 200
\* with it, whichever index was drawn.
C30_ReturnsAChatter ==
    (hist.last = "chatterReturned" /\ ~Falsy(globalToken) /\ chatters >= 1)
        => /\ res.status = 200
           /\ res.user \in {Str(k) : k \in 0..(chatters - 1)}

\* C31: once tokenManager has loaded and no writeFile or unlink is pending,
\* the token file exists exactly when tokenManager holds a record, and then
\* it holds that record's access_token and refresh_token.
C31_FileFollowsRecord ==
    [][(/\ io # {} /\ io' = {} /\ proc' = "running" /\ isLoaded'
        /\ hist'.last \in {"writeCompleted", "unlinked", "unlinkedMissing"})
       => /\ file' # NoFile <=> tokens' # Null
          /\ tokens' # Null
                 => /\ Has(Stored(file'), "access_token")
                    /\ Stored(file').access_token = tokens'.access_token
                    /\ Stored(file').refresh_token = tokens'.refresh_token]_vars

\* C32: when manageTwitchLogin adopts a record loaded from the token file,
\* whatever is then written to the file carries an expires_at no later than
\* the expires_at the loaded record had.
C32_AdoptionKeepsExpiry ==
    [][hist'.last = "adoptStored"
       => \A o \in Writes' :
             o.arg = tokens'
                 => Stored(o.data).expires_at <= tokens'.expires_at]_vars

\* C33: in every reachable state the renewal of the credential is one
\* thing at most -- one refresh timer, or one refresh request it sent --
\* and one retry timer at most; none of them is pending while a
\* manageTwitchLogin call runs or while the retry timer is pending, and
\* the timer or request that is pending is the one of the record held.
C33_OneRefreshChain ==
    /\ Cardinality(RefreshTimers) <= 1
    /\ Cardinality(KeepAlives) <= 1
    /\ Cardinality(Backoffs) <= 1
    /\ Backoffs # {} => KeepAlives = {}
    /\ (Running /\ pc # "done") => KeepAlives = {}
    /\ \A t \in KeepAlives : t.rec = globalToken

C33_Witness ==
    /\ hist.last = "pollSucceeded"
    /\ hist.refreshReqs >= 1
    /\ Cardinality(RefreshTimers) = 1
    /\ Backoffs = {}

\* a manageTwitchLogin call is between its first await and its return
LoginRuns ==
    /\ Running
    /\ pc \in {"loading", "reaping", "startupRefresh", "deviceCode",
                "polling", "pollWait"}

\* C34: whenever the process runs, manageTwitchLogin was called and
\* tokenManager holds no record, a manageTwitchLogin call is running or the
\* retry timer that starts one is pending; and, every request being
\* answered, a running manageTwitchLogin call leads to the refresh timer
\* being armed or to the end of the process.
C34_NeverIdleWithoutCredential ==
    /\ []((Running /\ pc # "boot" /\ getTokens = Null)
             => (LoginRuns \/ Backoffs # {}))
    /\ LoginRuns ~> (proc = "exited" \/ (pc = "done" /\ RefreshTimers # {}))

C34_Witness ==
    /\ Running /\ pc = "done"
    /\ hist.last = "pollSucceeded"
    /\ hist.pollCalls = 3
    /\ getTokens # Null
    /\ RefreshTimers # {}

\* C35: the refresh request a firing refresh timer sends carries the
\* refresh_token of the record tokenManager holds at that moment.
C35_RefreshesCurrentRecord ==
    [][hist'.last = "refreshSent"
       => /\ Truthy(tokens)
          /\ \E r \in tasks' \ tasks :
                /\ r.kind = "refreshReq"
                /\ r.rec.refresh_token = tokens.refresh_token]_vars

C35_Witness ==
    /\ hist.last = "refreshSent"
    /\ hist.renewals >= 1
    /\ \E r \in KeepAlives :
          /\ r.kind = "refreshReq"
          /\ r.rec.refresh_token = getTokens.refresh_token
          /\ r.rec.refresh_token = issued

\* C36: right after setTokens was given a record the token endpoint has
\* just answered, with expires_in above five minutes,
\* tokenManager.needsRefresh() is false.
C36_FreshRecordNeedsNoRefresh ==
    (/\ Running
     /\ hist.last \in {"pollSucceeded", "refreshSucceeded"}
     /\ \E e \in ExpiresIns : e > fiveMinutes
                                /\ getTokens = TokenResponse(issued, e))
        => ~TokenManagerNeedsRefresh(getTokens, now)

\* C37: the delay manageKeepAlive computes for a refresh timer is never
\* negative, and a timer just armed is not due at once.
C37_DelayNeverNegative ==
    \A t \in RefreshTimers :
        /\ refreshDelay(t.rec) >= 0
        /\ t.armed = now => t.due > now

\* C38: the text of the token file with its iv prefix replaced by another
\* iv does not decrypt to the plaintext that was encrypted.
C38_StoredIVIsUsed ==
    Has(file, "cipher")
        => \A iv \in IVs \ {file.iv} :
              decrypt([file EXCEPT !.iv = iv], ENCRYPTION_KEY)
                  # decrypt(file, ENCRYPTION_KEY)

====
